---------------------------- MODULE Spec2Model ----------------------------
(***************************************************************************)
(* Model of the Flickr plugin (src/plugins/flickr.py): the publish and     *)
(* unpublish handlers, the request builder _flickr_api_call with its OAuth *)
(* parameters, signature and body, and the host's key-value store.         *)
(*                                                                         *)
(* Text values are sequences of one-character strings, so that joining,    *)
(* space removal and percent-encoding are computed and not assumed.        *)
(* A handler invocation runs in a frame inv[p]; it advances in the steps   *)
(* between two blocking network calls.                                     *)
(***************************************************************************)
EXTENDS Integers, Sequences, FiniteSets, TLC

\* ---------------------------------------------------------------- bounds
NumPhotos == 2          \* photo UUIDs the host publishes
MaxClock == 1           \* last clock reading (in ticks)
TicksPerSecond == 1     \* clock readings per second of time.time()
flickr_photo_limit == 2 \* config 'flickr_photo_limit'
MaxParams == 2          \* entries of a parameter mapping handed to the signer

Photos == 1..NumPhotos
Procs == {"main", "worker"}     \* host threads that may run a handler
FlickrIds == {<<"7", "1">>, <<"7", "2">>}   \* photo ids the provider hands out
None == <<>>                    \* an absent key of the store / Python None

\* ---------------------------------------------------------------- text
Unreserved == {"a", "b", "c", "d", "e", "f", "g", "h", "i", "j", "k", "l", "m",
               "n", "o", "p", "q", "r", "s", "t", "u", "v", "w", "x", "y", "z",
               "A", "B", "C", "D", "E", "F", "G", "H", "I", "J", "K", "L", "M",
               "N", "O", "P", "Q", "R", "S", "T", "U", "V", "W", "X", "Y", "Z",
               "0", "1", "2", "3", "4", "5", "6", "7", "8", "9",
               "-", ".", "_", "~"}

\* The %XX escape of a character outside the unreserved set (ASCII table).
PercentCode(c) ==
    CASE c = " " -> <<"%", "2", "0">>
      [] c = "&" -> <<"%", "2", "6">>
      [] c = "=" -> <<"%", "3", "D">>
      [] c = "%" -> <<"%", "2", "5">>
      [] c = "+" -> <<"%", "2", "B">>
      [] c = "/" -> <<"%", "2", "F">>
      [] c = ":" -> <<"%", "3", "A">>
      [] c = "@" -> <<"%", "4", "0">>
      [] c = "\n" -> <<"%", "0", "A">>
      [] OTHER -> <<"%", "3", "F">>

\* One character as quote leaves it: unreserved characters stay.
QuoteChar(c) == IF c \in Unreserved THEN <<c>> ELSE PercentCode(c)
\* (a variant that leaves "+" as it is)
QuotePlusKeepsPlus(c) ==
    IF c = " " \/ c = "+" THEN <<"+">> ELSE QuoteChar(c)
\* One character as quote_plus leaves it: a space becomes "+".
QuotePlusChar(c) == IF c = " " THEN <<"+">> ELSE QuoteChar(c)

RECURSIVE quote(_)
\* urllib.parse.quote(s, safe=''), character by character (by halves)
quote(s) ==
    IF s = <<>> THEN <<>>
    ELSE IF Len(s) = 1 THEN QuoteChar(s[1])
    ELSE quote(SubSeq(s, 1, Len(s) \div 2)) \o quote(SubSeq(s, Len(s) \div 2 + 1, Len(s)))

RECURSIVE quote_plus(_)
\* urllib.parse.quote_plus(s), used by urlencode
quote_plus(s) ==
    IF s = <<>> THEN <<>>
    ELSE IF Len(s) = 1 THEN QuotePlusChar(s[1])
    ELSE quote_plus(SubSeq(s, 1, Len(s) \div 2))
         \o quote_plus(SubSeq(s, Len(s) \div 2 + 1, Len(s)))

\* str(n) of a small non-negative integer
Digit(n) == CASE n = 0 -> "0" [] n = 1 -> "1" [] n = 2 -> "2" [] n = 3 -> "3"
              [] n = 4 -> "4" [] n = 5 -> "5" [] n = 6 -> "6" [] n = 7 -> "7"
              [] n = 8 -> "8" [] OTHER -> "9"
RECURSIVE str(_)
str(n) == IF n < 10 THEN <<Digit(n)>> ELSE str(n \div 10) \o <<Digit(n % 10)>>

RECURSIVE Join(_, _)
\* sep.join(parts)
Join(sep, parts) ==
    IF parts = <<>> THEN <<>>
    ELSE IF Len(parts) = 1 THEN parts[1]
    ELSE parts[1] \o sep \o Join(sep, Tail(parts))

RECURSIVE RemoveSpaces(_)
\* s.replace(' ', '')
RemoveSpaces(s) ==
    IF s = <<>> THEN <<>>
    ELSE (IF Head(s) = " " THEN <<>> ELSE <<Head(s)>>) \o RemoveSpaces(Tail(s))

Range(s) == {s[i] : i \in 1..Len(s)}

\* The characters of the model in ASCII (byte) order.
Ascii == <<"\n", " ", "%", "&", "+", "-", ".", "/",
           "0", "1", "2", "3", "4", "5", "6", "7", "8", "9", ":", "=", "?", "@",
           "A", "B", "C", "D", "E", "F", "G", "H", "I", "J", "K", "L", "M",
           "N", "O", "P", "Q", "R", "S", "T", "U", "V", "W", "X", "Y", "Z", "_",
           "a", "b", "c", "d", "e", "f", "g", "h", "i", "j", "k", "l", "m",
           "n", "o", "p", "q", "r", "s", "t", "u", "v", "w", "x", "y", "z", "~">>
Ord == [c \in Range(Ascii) |-> CHOOSE i \in 1..Len(Ascii) : Ascii[i] = c]

RECURSIVE StrLess(_, _)
\* a < b for Python str: lexicographic by code point
StrLess(a, b) ==
    IF b = <<>> THEN FALSE
    ELSE IF a = <<>> THEN TRUE
    ELSE IF Head(a) = Head(b) THEN StrLess(Tail(a), Tail(b))
    ELSE Ord[Head(a)] < Ord[Head(b)]

\* ---------------------------------------------------------------- dicts
\* A dict is a sequence of <<key, value>> pairs in insertion order, with no
\* key twice.
Keys(d) == {d[i][1] : i \in 1..Len(d)}
Get(d, k) == d[CHOOSE i \in 1..Len(d) : d[i][1] = k][2]
\* d[k] = v
Put(d, k, v) ==
    IF k \in Keys(d)
    THEN [i \in 1..Len(d) |-> IF d[i][1] = k THEN <<k, v>> ELSE d[i]]
    ELSE Append(d, <<k, v>>)
RECURSIVE Merge(_, _)
\* {**a, **b}
Merge(a, b) == IF b = <<>> THEN a ELSE Merge(Put(a, b[1][1], b[1][2]), Tail(b))

RECURSIVE InsertSorted(_, _)
InsertSorted(item, s) ==
    IF s = <<>> THEN <<item>>
    ELSE IF StrLess(item[1], s[1][1]) THEN <<item>> \o s
    ELSE <<s[1]>> \o InsertSorted(item, Tail(s))
RECURSIVE sorted(_)
\* sorted(params.items()): the keys are distinct, so the key decides
sorted(d) == IF d = <<>> THEN <<>> ELSE InsertSorted(d[1], sorted(Tail(d)))

\* ---------------------------------------------------------------- names
k_oauth_nonce == <<"o", "a", "u", "t", "h", "_", "n", "o", "n", "c", "e">>
k_oauth_timestamp == <<"o", "a", "u", "t", "h", "_", "t", "i", "m", "e", "s", "t", "a", "m", "p">>
k_oauth_consumer_key == <<"o", "a", "u", "t", "h", "_", "c", "o", "n", "s", "u", "m", "e", "r", "_", "k", "e", "y">>
k_oauth_token == <<"o", "a", "u", "t", "h", "_", "t", "o", "k", "e", "n">>
k_oauth_signature_method == <<"o", "a", "u", "t", "h", "_", "s", "i", "g", "n", "a", "t", "u", "r", "e", "_", "m", "e", "t", "h", "o", "d">>
k_oauth_version == <<"o", "a", "u", "t", "h", "_", "v", "e", "r", "s", "i", "o", "n">>
k_oauth_signature == <<"o", "a", "u", "t", "h", "_", "s", "i", "g", "n", "a", "t", "u", "r", "e">>
k_method == <<"m", "e", "t", "h", "o", "d">>
k_format == <<"f", "o", "r", "m", "a", "t">>
k_nojsoncallback == <<"n", "o", "j", "s", "o", "n", "c", "a", "l", "l", "b", "a", "c", "k">>
k_photo_id == <<"p", "h", "o", "t", "o", "_", "i", "d">>
k_group_id == <<"g", "r", "o", "u", "p", "_", "i", "d">>
k_title == <<"t", "i", "t", "l", "e">>
k_description == <<"d", "e", "s", "c", "r", "i", "p", "t", "i", "o", "n">>
k_tags == <<"t", "a", "g", "s">>
k_is_public == <<"i", "s", "_", "p", "u", "b", "l", "i", "c">>
k_is_friend == <<"i", "s", "_", "f", "r", "i", "e", "n", "d">>
k_is_family == <<"i", "s", "_", "f", "a", "m", "i", "l", "y">>
k_hidden == <<"h", "i", "d", "d", "e", "n">>
k_safety_level == <<"s", "a", "f", "e", "t", "y", "_", "l", "e", "v", "e", "l">>

\* ---------------------------------------------------------------- config
\* The configuration mapping handed to __init__ (one fixed, valid one).
api_key == <<"k", "1">>
api_secret == <<"s", "&", "1">>
oauth_token == <<"t", "1">>
oauth_token_secret == <<"s", "2">>
photo_description_footer == <<"@", "m", "e">>
\* The two endpoints, shortened to host and path.
UploadUrl == <<"u", "p", ":", "/", "u">>
RestUrl == <<"a", "p", "i", ":", "/", "r">>

g1 == <<"g", "1">>
g2 == <<"g", "2">>
g3 == <<"g", "@", "3">>
sky == <<"s", "k", "y">>
big_sky == <<"b", "i", "g", " ", "s", "k", "y">>
nature == <<"n", "a", "t", "u", "r", "e">>
travel == <<"t", "r", "a", "v", "e", "l">>
trips == <<"t", "r", "i", "p", "s">>
nope == <<"n", "o", "p", "e">>
\* config 'group_sets'
group_sets ==
    << [name |-> nature, groups |-> <<g1, g2>>, auto_tags |-> <<sky>>, auto_albums |-> <<>>],
       [name |-> travel, groups |-> <<g3>>, auto_tags |-> <<>>, auto_albums |-> <<trips>>] >>

\* ---------------------------------------------------------------- signing
\* hashlib.md5(s).hexdigest(), kept as a tagged copy of its input: equal
\* inputs give equal digests, and different inputs different ones.
Md5Hex(s) == <<"f">> \o s

RECURSIVE Checksum(_, _, _)
\* a position-weighted sum of the characters lo..hi of s (by halves)
Checksum(s, lo, hi) ==
    IF lo > hi THEN 0
    ELSE IF lo = hi THEN (Ord[s[lo]] * lo) % 1000
    ELSE (Checksum(s, lo, (lo + hi) \div 2) + Checksum(s, (lo + hi) \div 2 + 1, hi)) % 1000
\* base64(hmac_sha1(key, msg)): a deterministic digest of key and message.
\* Base64 text of a 20-byte digest ends in "=".
HmacSha1Base64(key, msg) ==
    str(Checksum(key \o <<"\n">> \o msg, 1, Len(key) + 1 + Len(msg))) \o <<"+", "=">>

\* A parameter value that is not text: the integer n.
IntValue(n) == <<"int", n>>
\* str(v) of a parameter value: text is itself, an integer its decimal digits
StrOf(v) == IF v # <<>> /\ v[1] = "int" THEN str(v[2]) ELSE v
\* 'k=quote(str(v))' for one pair: the value is quoted, the key is not
ParamPair(item) == item[1] \o <<"=">> \o quote(StrOf(item[2]))
\* the parameter string of _generate_oauth_signature
ParamString(params) ==
    LET sorted_params == sorted(params)
    IN  Join(<<"&">>, [i \in 1..Len(sorted_params) |-> ParamPair(sorted_params[i])])
\* method.upper() for the one method the plugin uses
Upper(method) == IF method = <<"p", "o", "s", "t">> THEN <<"P", "O", "S", "T">> ELSE method
GenerateOauthSignature(method, url, params) ==
    LET base_string == Join(<<"&">>, <<Upper(method), quote(url), quote(ParamString(params))>>)
        signing_key == quote(api_secret) \o <<"&">> \o quote(oauth_token_secret)
    IN  HmacSha1Base64(signing_key, base_string)

\* ---------------------------------------------------------------- requests
ImageBytes == <<"J", "F", "I", "F">>    \* the image the host serves
\* photo_data.read() after the stream's position was set
StreamRead(data, pos) == SubSeq(data, pos + 1, Len(data))
\* photo_data.seek(0)
Seek0(pos) == 0

\* the dict oauth_params; nonce_clock and stamp_clock are the two readings
\* of time.time() (in ticks)
OauthParams(nonce_clock, stamp_clock) ==
    << <<k_oauth_nonce, Md5Hex(str(nonce_clock))>>,
       <<k_oauth_timestamp, str(stamp_clock \div TicksPerSecond)>>,
       <<k_oauth_consumer_key, api_key>>,
       <<k_oauth_token, oauth_token>>,
       <<k_oauth_signature_method, <<"H", "M", "A", "C", "-", "S", "H", "A", "1">>>>,
       <<k_oauth_version, <<"1", ".", "0">>>> >>

\* params after 'if not upload: params[...] = ...'
MethodParams(method, params, upload) ==
    IF upload THEN params
    ELSE Put(Put(Put(params, k_method, method), k_format, <<"j", "s", "o", "n">>),
             k_nojsoncallback, <<"1">>)

\* all_params = {**params, **oauth_params}: what is handed to the signer
SignedParams(method, params, upload, nonce_clock, stamp_clock) ==
    Merge(MethodParams(method, params, upload), OauthParams(nonce_clock, stamp_clock))

\* all_params after all_params['oauth_signature'] = signature
SentParams(url, all_params) ==
    Put(all_params, k_oauth_signature,
        GenerateOauthSignature(<<"p", "o", "s", "t">>, url, all_params))

\* _create_multipart_body: one form field per parameter, then the photo part
CreateMultipartBody(params, data, pos) ==
    [multipart |-> TRUE,
     fields |-> params,
     photo |-> StreamRead(data, Seek0(pos))]

\* urllib.parse.urlencode(all_params): quote_plus on every key and value
UrlEncode(params) ==
    [multipart |-> FALSE,
     fields |-> [i \in 1..Len(params) |-> <<quote_plus(params[i][1]), quote_plus(params[i][2])>>],
     photo |-> <<>>]

\* The request _flickr_api_call sends. stream is the photo_data argument:
\* [present, pos, closed]; a missing one is Python None.
FlickrApiRequest(method, params, upload, stream, nonce_clock, stamp_clock) ==
    LET base_url == IF upload THEN UploadUrl ELSE RestUrl
        all_params == SignedParams(method, params, upload, nonce_clock, stamp_clock)
        sent == SentParams(base_url, all_params)
    IN  [upload |-> upload,
         url |-> base_url,
         signed |-> all_params,
         body |-> IF upload /\ stream.present
                  THEN CreateMultipartBody(sent, ImageBytes, stream.pos)
                  ELSE UrlEncode(sent),
         status |-> "pending"]

\* The requests of the three calls the handlers make, by their arguments
\* (tables of FlickrApiRequest, so that each request is built once).
Clock == 0..MaxClock
StreamPositions == {0, 2}
OpenStream(pos) == [present |-> TRUE, pos |-> pos, closed |-> FALSE]
NoStream == [present |-> FALSE, pos |-> 0, closed |-> FALSE]
m_delete == <<"f", "l", "i", "c", "k", "r", ".", "p", "h", "o", "t", "o", "s", ".",
              "d", "e", "l", "e", "t", "e">>
m_pools_add == <<"f", "l", "i", "c", "k", "r", ".", "g", "r", "o", "u", "p", "s", ".",
                 "p", "o", "o", "l", "s", ".", "a", "d", "d">>
Groups == UNION {Range(group_sets[i].groups) : i \in 1..Len(group_sets)}

\* ---------------------------------------------------------------- responses
\* What a call gets back: a transport failure, or a response body.
\* For uploads the body is XML: wellformed, the root's stat attribute, whether
\* an err element is nested, and the photoid element ("empty" is a photoid
\* element without text) with its text.
Transports == {"http_error", "url_error", "timeout"}
\* The attributes of the err element the provider sends, and the texts the
\* parser puts in their place when one is missing.
ErrCodes == {<<"5">>, <<"9", "6">>}
ErrMsgs == {<<"b", "a", "d">>, <<"n", "o", " ", "f", "i", "l", "e">>}
unknown == <<"u", "n", "k", "n", "o", "w", "n">>
Unknown_error == <<"U", "n", "k", "n", "o", "w", "n", " ", "e", "r", "r", "o", "r">>
\* Every upload document: stat is the root's attribute ("absent": none),
\* err whether an err element is a child of the root, code and msg its
\* attributes (None: not there).
XmlDocuments ==
    { x \in [wellformed : {TRUE}, stat : {"ok", "fail", "absent"}, err : BOOLEAN,
             code : ErrCodes \cup {None}, msg : ErrMsgs \cup {None},
             photoid : {"absent", "empty", "text"}, id : FlickrIds \cup {None}] :
        /\ (x.photoid = "text" <=> x.id # None)
        /\ (~x.err => x.code = None /\ x.msg = None) }
MalformedXml ==
    [wellformed |-> FALSE, stat |-> "ok", err |-> FALSE, code |-> None, msg |-> None,
     photoid |-> "absent", id |-> None]
\* The documents the handlers are run against: an err element comes with
\* both attributes and only in a failed response.
UploadXml ==
    { x \in XmlDocuments :
        /\ x.stat # "absent"
        /\ (x.err => x.stat = "fail")
        /\ (x.err => x.code = <<"5">> /\ x.msg = <<"b", "a", "d">>) }
UploadResponses ==
    { [transport |-> t, xml |-> MalformedXml] : t \in Transports \cup {"ok"} }
    \cup { [transport |-> "ok", xml |-> x] : x \in UploadXml }

\* the text of "Flickr upload error [code]: msg", by its two parts
ProviderError(xml) ==
    [code |-> IF xml.err /\ xml.code # None THEN xml.code ELSE unknown,
     msg |-> IF xml.err /\ xml.msg # None THEN xml.msg ELSE Unknown_error]
NoDetail == [code |-> None, msg |-> None]
\* (a variant that does not look at the root's stat attribute)
ParseIgnoringStat(xml) ==
    IF ~xml.wellformed THEN [error |-> "invalid_xml", photo_id |-> None, detail |-> NoDetail]
    ELSE IF xml.photoid # "absent"
         THEN [error |-> "none",
               photo_id |-> IF xml.photoid = "text" THEN xml.id ELSE None,
               detail |-> NoDetail]
    ELSE [error |-> "missing_photo_id", photo_id |-> None, detail |-> NoDetail]
\* (a variant that tests the photoid element by its truth value: an element
\* without children is false)
ParseByTruthValue(xml) ==
    IF ~xml.wellformed THEN [error |-> "invalid_xml", photo_id |-> None, detail |-> NoDetail]
    ELSE IF xml.stat = "fail"
         THEN [error |-> "provider", photo_id |-> None, detail |-> ProviderError(xml)]
    ELSE [error |-> "missing_photo_id", photo_id |-> None, detail |-> NoDetail]
\* _parse_upload_response: [error, photo_id, detail]; error "none" is a
\* return, and detail the code and message a provider error carries
ParseUploadResponse(xml) ==
    IF ~xml.wellformed THEN [error |-> "invalid_xml", photo_id |-> None, detail |-> NoDetail]
    ELSE IF xml.stat = "fail"
         THEN [error |-> "provider", photo_id |-> None, detail |-> ProviderError(xml)]
    ELSE IF xml.photoid # "absent"
         THEN [error |-> "none",
               photo_id |-> IF xml.photoid = "text" THEN xml.id ELSE None,
               detail |-> NoDetail]
    ELSE [error |-> "missing_photo_id", photo_id |-> None, detail |-> NoDetail]

\* The JSON of a method call: valid or not, and its stat field.
JsonResponses ==
    { [transport |-> t, valid |-> TRUE, stat |-> "ok"] : t \in Transports }
    \cup { [transport |-> "ok", valid |-> FALSE, stat |-> "ok"] }
    \cup { [transport |-> "ok", valid |-> TRUE, stat |-> st] : st \in {"ok", "fail"} }

\* the outcome of _flickr_api_call on a response: [error, photo_id]
\* What the provider did, whatever the plugin makes of it.
UploadRefused(resp) ==
    resp.transport # "ok" \/ ~resp.xml.wellformed \/ resp.xml.stat = "fail"
MethodRefused(resp) == resp.transport # "ok" \/ ~resp.valid \/ resp.stat = "fail"

UploadResult(resp) ==
    IF resp.transport # "ok"
    THEN [error |-> resp.transport, photo_id |-> None, detail |-> NoDetail]
    ELSE ParseUploadResponse(resp.xml)
\* (a variant that does not look at the stat field)
MethodResultIgnoringStat(resp) ==
    IF resp.transport # "ok" THEN resp.transport
    ELSE IF ~resp.valid THEN "invalid_json"
    ELSE "none"
MethodResult(resp) ==
    IF resp.transport # "ok" THEN resp.transport
    ELSE IF ~resp.valid THEN "invalid_json"
    ELSE IF resp.stat = "fail" THEN "provider"
    ELSE "none"

\* ---------------------------------------------------------------- inputs
\* The photo-data mapping of an event: three kinds of photo per UUID.
album_a1 == [uuid |-> <<"a", "1">>, slug |-> trips]
Data(u, kind) ==
    [uuid |-> u,
     title |-> <<"H", "i", " ", "&">>,
     description |-> IF kind = "plain" THEN <<>> ELSE <<"d", "=", "1">>,
     tags |-> IF kind = "tagged" THEN <<big_sky, sky, sky>> ELSE <<>>,
     albums |-> IF kind = "album" THEN <<album_a1>> ELSE <<>>,
     hidden |-> (kind = "plain")]
DataSet == {Data(u, kind) : u \in Photos, kind \in {"plain", "tagged", "album"}}

\* The per-entity parameter mapping: Python None, or a dict whose absent
\* keys are shown by the value .get() would give (safety_level 0: absent).
Params(isNone, force, sets, level, override, more) ==
    [none |-> isNone, force |-> force, additional_group_sets |-> sets,
     safety_level |-> level, override_description |-> override,
     additional_tags |-> more]
NoParams == Params(TRUE, FALSE, <<>>, 0, <<>>, <<>>)
EmptyParams == Params(FALSE, FALSE, <<>>, 0, <<>>, <<>>)
ParamsSet ==
    { NoParams,
      EmptyParams,
      Params(FALSE, TRUE, <<>>, 0, <<>>, <<>>),
      Params(FALSE, FALSE, <<nope, travel>>, 2, <<"o">>, <<sky, <<"x", " ", "y">>>>),
      Params(FALSE, TRUE, <<travel>>, 7, <<>>, <<>>) }
\* bool(params): None and the empty dict are falsy
Truthy(params) == ~params.none /\ params # EmptyParams

\* What the host's get_photo_image does: a stream (at some position), None,
\* or an exception.
ImageFetches == {"stream", "stream_read", "none", "raise"}

\* ---------------------------------------------------------------- helpers
\* _build_description
BuildDescription(data, params) ==
    LET description == IF Truthy(params) /\ params.override_description # <<>>
                       THEN params.override_description
                       ELSE data.description
    IN  IF photo_description_footer # <<>>
        THEN IF description # <<>>
             THEN description \o <<"\n", "\n">> \o photo_description_footer
             ELSE photo_description_footer
        ELSE description

RECURSIVE AddTags(_, _)
\* the two loops of _build_tags: strip spaces, drop empty and seen names
AddTags(tags, names) ==
    IF names = <<>> THEN tags
    ELSE LET tag_name == RemoveSpaces(Head(names))
         IN  AddTags(IF tag_name # <<>> /\ tag_name \notin Range(tags)
                     THEN Append(tags, tag_name) ELSE tags,
                     Tail(names))
\* _build_tags
BuildTags(data, params) ==
    AddTags(AddTags(<<>>, data.tags),
            IF Truthy(params) THEN params.additional_tags ELSE <<>>)

\* one pass of the first loop of _get_applicable_group_sets
AutoMatches(group_set, data) ==
    \/ /\ group_set.auto_tags # <<>>
       /\ Range(group_set.auto_tags) \subseteq Range(data.tags)
    \/ /\ group_set.auto_albums # <<>>
       /\ \E a \in Range(group_set.auto_albums) :
             \E al \in Range(data.albums) : a = al.uuid \/ a = al.slug
RECURSIVE AddNamed(_, _)
\* the second loop: each additional name adds the first set of that name
AddNamed(applicable, names) ==
    IF names = <<>> THEN applicable
    ELSE LET found == {i \in 1..Len(group_sets) : group_sets[i].name = Head(names)}
             first == CHOOSE i \in found : \A j \in found : i <= j
         IN  AddNamed(IF found # {} /\ group_sets[first] \notin Range(applicable)
                      THEN Append(applicable, group_sets[first]) ELSE applicable,
                      Tail(names))
\* _get_applicable_group_sets
GetApplicableGroupSets(data, params) ==
    AddNamed(SelectSeq(group_sets, LAMBDA gs : gs.name # <<>> /\ AutoMatches(gs, data)),
             IF Truthy(params) THEN params.additional_group_sets ELSE <<>>)

RECURSIVE GroupQueue(_)
\* the order in which _add_photo_to_groups visits the groups
GroupQueue(sets) ==
    IF sets = <<>> THEN <<>> ELSE Head(sets).groups \o GroupQueue(Tail(sets))

\* upload_params of on_photo_publish
UploadParams(data, params) ==
    LET base == << <<k_title, data.title>>,
                   <<k_description, BuildDescription(data, params)>>,
                   <<k_tags, Join(<<" ">>, BuildTags(data, params))>>,
                   <<k_is_public, <<"1">>>>,
                   <<k_is_friend, <<"0">>>>,
                   <<k_is_family, <<"0">>>>,
                   <<k_hidden, IF data.hidden THEN <<"2">> ELSE <<"1">>>> >>
    IN  IF Truthy(params) /\ params.safety_level \in {1, 2, 3}
        THEN Put(base, k_safety_level, str(params.safety_level))
        ELSE base

\* 'force = params and params.get("force", False)' of on_photo_publish
PublishForce(params) == Truthy(params) /\ params.force
\* (a variant with the force flag inverted)
AlreadyUploadedWhenForced(existing_flickr_id, force) == existing_flickr_id # None /\ force
\* 'if existing_flickr_id and not force: return'
AlreadyUploaded(existing_flickr_id, force) == existing_flickr_id # None /\ ~force
\* (a variant without the limit check)
LimitNotChecked(published_count) == FALSE
\* (a variant that is off by one)
LimitExceeded(published_count) == published_count > flickr_photo_limit
\* 'if published_count >= self.flickr_photo_limit: raise'
LimitReached(published_count) == published_count >= flickr_photo_limit
\* (a variant that gives up at the first failure)
StopAtFailure(todo, error) == IF error = "none" THEN Tail(todo) ELSE <<>>
\* the groups still to visit after a group-add ended with error (or "none"):
\* the except clause of _add_photo_to_groups logs and goes on
RemainingGroups(todo, error) == Tail(todo)
\* (a variant without the first early return)
NothingToDeleteForced(flickr_photo_id, force) == flickr_photo_id = None /\ force
\* the two early returns of on_photo_unpublish
NothingToDelete(flickr_photo_id, force) ==
    \/ (flickr_photo_id = None /\ ~force)
    \/ (flickr_photo_id = None /\ force)
\* (a variant that forgets the decrement)
CountKeptAfterDelete(published_count) == published_count
\* the count written after a delete
CountAfterDelete(published_count) ==
    IF published_count > 0 THEN published_count - 1 ELSE published_count

\* the upload call of on_photo_publish (lines 467-472)
UploadRequest(data, params, pos, nonce_clock, stamp_clock) ==
    FlickrApiRequest(<<>>, UploadParams(data, params), TRUE, OpenStream(pos),
                     nonce_clock, stamp_clock)
\* the call of _add_photo_to_groups (lines 387-390)
GroupAddRequest(flickr_photo_id, group_id, nonce_clock, stamp_clock) ==
    FlickrApiRequest(m_pools_add,
                     << <<k_photo_id, flickr_photo_id>>, <<k_group_id, group_id>> >>,
                     FALSE, NoStream, nonce_clock, stamp_clock)
\* the call of on_photo_unpublish (lines 533-535)
DeleteRequest(flickr_photo_id, nonce_clock, stamp_clock) ==
    FlickrApiRequest(m_delete, << <<k_photo_id, flickr_photo_id>> >>,
                     FALSE, NoStream, nonce_clock, stamp_clock)

UploadRequests ==
    [data \in DataSet, params \in ParamsSet, pos \in StreamPositions,
     n \in Clock, t \in Clock |-> UploadRequest(data, params, pos, n, t)]
GroupAddRequests ==
    [id \in FlickrIds, g \in Groups, n \in Clock, t \in Clock |->
        GroupAddRequest(id, g, n, t)]
DeleteRequests ==
    [id \in FlickrIds \cup {None}, n \in Clock, t \in Clock |-> DeleteRequest(id, n, t)]

\* ---------------------------------------------------------------- state
VARIABLES
    flickr_photo_limit_initial_count,   \* config 'flickr_photo_limit_initial_count'
    published_photo_count,  \* store key 'published_photo_count'
    uploaded,               \* store keys '<uuid>_uploaded': photo -> id or None
    now,                    \* the reading time.time() gives, in ticks
    inv                     \* the frame of each handler invocation

vars == <<flickr_photo_limit_initial_count, published_photo_count, uploaded, now, inv>>

\* A frame holds the handler's arguments and locals; calls is the list of
\* network calls of this invocation, request the latest request in full;
\* argument and result are those of a function that is run on its own.
IdleFrame ==
    [pc |-> "idle", op |-> "none", data |-> Data(1, "plain"), params |-> NoParams,
     existing_flickr_id |-> None, published_count |-> 0,
     photo_stream |-> NoStream, flickr_photo_id |-> None,
     todo |-> <<>>, applicable |-> 0, fetches |-> 0,
     calls |-> <<>>, request |-> <<>>, argument |-> <<>>, result |-> <<>>,
     count0 |-> 0, uploaded0 |-> [u \in Photos |-> None],
     status |-> "none", error |-> "none"]

\* The frame of a handler that was just entered.
Enter(op, data, params) ==
    [IdleFrame EXCEPT !.op = op, !.data = data, !.params = params,
                      !.count0 = published_photo_count, !.uploaded0 = uploaded,
                      !.status = "running"]

\* (a variant that leaves the stream open)
LeaveOpen(stream) == stream
\* photo_stream.close() in the finally clause (a missing stream has no frame
\* to close: the handler left before the try)
CloseStream(stream) == [stream EXCEPT !.closed = stream.present]

\* One network call as the log keeps it: what was called with which argument
\* and nonce; whether _flickr_api_call returned ("ok") or raised ("failed");
\* and what the provider answered: refused (a transport failure or a response
\* that signals failure) and the photo id in the response.
Call(kind, arg, req) ==
    [kind |-> kind, arg |-> arg, nonce |-> Get(req.signed, k_oauth_nonce),
     status |-> "pending", refused |-> FALSE, photo_id |-> None]
\* The frame after _flickr_api_call has sent req.
Sent(f, kind, arg, req) ==
    [f EXCEPT !.calls = Append(@, Call(kind, arg, req)), !.request = <<req>>]
\* The frame after the pending call got its response.
Answered(f, ok, refused, photo_id) ==
    [f EXCEPT !.calls[Len(f.calls)].status = IF ok THEN "ok" ELSE "failed",
              !.calls[Len(f.calls)].refused = refused,
              !.calls[Len(f.calls)].photo_id = photo_id]

\* The handler returns or raises: the host sees the end of the invocation.
Return(p, f) ==
    inv' = [inv EXCEPT ![p] = [f EXCEPT !.pc = "done", !.status = "returned"]]
Raise(p, f, error) ==
    inv' = [inv EXCEPT ![p] = [f EXCEPT !.pc = "done", !.status = "raised",
                                        !.error = error]]
\* The handler blocks in a network call.
Block(p, f, pc) == inv' = [inv EXCEPT ![p] = [f EXCEPT !.pc = pc]]

\* The second reading of time.time() within one _flickr_api_call.
Later(d) == IF now + d > MaxClock THEN MaxClock ELSE now + d

\* The plugin was constructed on a store without a count: the count is the
\* configured initial count, which is within the limit.
Init ==
    /\ flickr_photo_limit_initial_count \in 0..flickr_photo_limit
    /\ published_photo_count = flickr_photo_limit_initial_count
    /\ uploaded = [u \in Photos |-> None]
    /\ now = 0
    /\ inv = [p \in Procs |-> IdleFrame]

\* ---------------------------------------------------------------- publish
\* (a variant that adds one to the count the store holds at the write)
CountFromStore(existing_flickr_id, published_count) ==
    IF existing_flickr_id = None THEN published_photo_count + 1 ELSE published_photo_count
\* (a variant that counts a forced re-upload again)
CountAlwaysIncremented(existing_flickr_id, published_count) == published_count + 1
\* the count in the store after an upload: for a new upload the count read
\* before the upload plus one is written; otherwise nothing is written
CountAfterUpload(existing_flickr_id, published_count) ==
    IF existing_flickr_id = None THEN published_count + 1 ELSE published_photo_count

\* on_photo_publish up to the upload call (lines 397-472)
PublishStart(p, data, params, image, d) ==
    LET f0 == Enter("publish", data, params)
        force == PublishForce(params)
        existing_flickr_id == uploaded[data.uuid]
        published_count == published_photo_count
        f1 == [f0 EXCEPT !.existing_flickr_id = existing_flickr_id]
        f2 == [f1 EXCEPT !.published_count = published_count]
        f3 == [f2 EXCEPT !.fetches = 1]
        stream == OpenStream(IF image = "stream_read" THEN 2 ELSE 0)
        f4 == [f3 EXCEPT !.photo_stream = stream]
        req == UploadRequests[data, params, stream.pos, now, Later(d)]
    IN  /\ inv[p].pc = "idle"
        /\ UNCHANGED <<flickr_photo_limit_initial_count, published_photo_count, uploaded>>
        /\ IF AlreadyUploaded(existing_flickr_id, force)
           THEN Return(p, f1) /\ UNCHANGED now
           ELSE IF LimitReached(published_count)
           THEN Raise(p, f2, "policy_limit") /\ UNCHANGED now
           ELSE IF image = "raise"
           THEN Raise(p, f3, "image_error") /\ UNCHANGED now
           ELSE IF image = "none"
           THEN Raise(p, f3, "no_image") /\ UNCHANGED now
           ELSE /\ Block(p, Sent(f4, "upload", None, req), "upload")
                /\ now' = Later(d)

\* The next group-add call of _add_photo_to_groups, or the end of the handler.
NextGroup(p, f, d) ==
    IF f.todo = <<>>
    THEN /\ Return(p, [f EXCEPT !.photo_stream = CloseStream(@)])
         /\ UNCHANGED now
    ELSE LET req == GroupAddRequests[f.flickr_photo_id, Head(f.todo), now, Later(d)]
         IN  /\ Block(p, Sent(f, "group_add", Head(f.todo), req), "group")
             /\ now' = Later(d)

\* on_photo_publish from the upload's response on (lines 474-506)
UploadResponse(p, resp, d) ==
    LET f == inv[p]
        r == UploadResult(resp)
        closed == [f EXCEPT !.photo_stream = CloseStream(@)]
        groups == GroupQueue(GetApplicableGroupSets(f.data, f.params))
        refused == UploadRefused(resp)
    IN  /\ f.pc = "upload"
        /\ UNCHANGED flickr_photo_limit_initial_count
        /\ IF r.error # "none"
           THEN /\ Raise(p, Answered(closed, FALSE, refused, resp.xml.id), r.error)
                /\ UNCHANGED <<published_photo_count, uploaded, now>>
           ELSE IF r.photo_id = None
           THEN /\ Raise(p, Answered(closed, TRUE, refused, resp.xml.id), "no_photo_id")
                /\ UNCHANGED <<published_photo_count, uploaded, now>>
           ELSE /\ published_photo_count' =
                       CountAfterUpload(f.existing_flickr_id, f.published_count)
                /\ uploaded' = [uploaded EXCEPT ![f.data.uuid] = r.photo_id]
                /\ NextGroup(p, [Answered(f, TRUE, refused, resp.xml.id) EXCEPT
                                    !.flickr_photo_id = r.photo_id,
                                    !.todo = groups, !.applicable = Len(groups)], d)

\* _add_photo_to_groups from a group-add's response on (lines 384-393)
GroupResponse(p, resp, d) ==
    LET f == inv[p]
    IN  /\ f.pc = "group"
        /\ UNCHANGED <<flickr_photo_limit_initial_count, published_photo_count, uploaded>>
        /\ NextGroup(p, [Answered(f, MethodResult(resp) = "none",
                                     MethodRefused(resp), None) EXCEPT
                            !.todo = RemainingGroups(@, MethodResult(resp))], d)

\* ---------------------------------------------------------------- unpublish
\* on_photo_unpublish up to the delete call (lines 510-535)
UnpublishStart(p, data, params, d) ==
    LET f0 == Enter("unpublish", data, params)
        flickr_photo_id == uploaded[data.uuid]
        f1 == [f0 EXCEPT !.flickr_photo_id = flickr_photo_id,
                         !.existing_flickr_id = flickr_photo_id]
    IN  /\ inv[p].pc = "idle"
        /\ UNCHANGED <<flickr_photo_limit_initial_count, published_photo_count, uploaded>>
        /\ IF params.none
           THEN Raise(p, f0, "attribute_error") /\ UNCHANGED now
           ELSE IF NothingToDelete(flickr_photo_id, params.force)
           THEN Return(p, f1) /\ UNCHANGED now
           ELSE /\ Block(p, Sent(f1, "delete", flickr_photo_id,
                                  DeleteRequests[flickr_photo_id, now, Later(d)]), "delete")
                /\ now' = Later(d)

\* on_photo_unpublish from the delete's response on (lines 537-551)
DeleteResponse(p, resp) ==
    LET f == inv[p]
        error == MethodResult(resp)
    IN  /\ f.pc = "delete"
        /\ UNCHANGED <<flickr_photo_limit_initial_count, now>>
        /\ IF error # "none"
           THEN /\ Raise(p, Answered(f, FALSE, MethodRefused(resp), None), error)
                /\ UNCHANGED <<published_photo_count, uploaded>>
           ELSE /\ uploaded' = [uploaded EXCEPT ![f.data.uuid] = None]
                /\ published_photo_count' = CountAfterDelete(published_photo_count)
                /\ Return(p, Answered(f, TRUE, MethodRefused(resp), None))

\* ---------------------------------------------------------------- system
\* Time passes.
Tick == /\ now < MaxClock
        /\ now' = now + 1
        /\ UNCHANGED <<flickr_photo_limit_initial_count, published_photo_count, uploaded, inv>>

\* The host takes the handler's result (or its exception) and drops the frame.
HostCollect(p) ==
    /\ inv[p].pc = "done"
    /\ inv' = [inv EXCEPT ![p] = IdleFrame]
    /\ UNCHANGED <<flickr_photo_limit_initial_count, published_photo_count, uploaded, now>>

\* The host runs one handler at a time per plugin instance, on its main
\* thread, and starts the next one when it has taken the result of the last.
NoneRunning == \A q \in Procs : inv[q].pc = "idle"

HostPublish ==
    \E data \in DataSet, params \in ParamsSet, image \in ImageFetches, d \in {0, 1} :
        NoneRunning /\ PublishStart("main", data, params, image, d)
HostUnpublish ==
    \E data \in DataSet, params \in ParamsSet, d \in {0, 1} :
        NoneRunning /\ UnpublishStart("main", data, params, d)
UploadDone == \E p \in Procs, resp \in UploadResponses, d \in {0, 1} : UploadResponse(p, resp, d)
GroupDone == \E p \in Procs, resp \in JsonResponses, d \in {0, 1} : GroupResponse(p, resp, d)
DeleteDone == \E p \in Procs, resp \in JsonResponses : DeleteResponse(p, resp)

HostDone == \E p \in Procs : HostCollect(p)

Next ==
    HostPublish \/ HostUnpublish \/ UploadDone \/ GroupDone \/ DeleteDone \/ HostDone \/ Tick

Spec == Init /\ [][Next]_vars

\* ---------------------------------------------------------------- two threads
\* A host that does not keep to one handler at a time: each of its two
\* threads runs one handler on the same plugin instance and store, and the
\* other thread runs while a handler waits for the network.
RaceData == {Data(u, "plain") : u \in Photos}
RaceParams == {EmptyParams, Params(FALSE, TRUE, <<>>, 0, <<>>, <<>>)}
RacePublish ==
    \E p \in Procs, data \in RaceData, params \in RaceParams,
       image \in {"stream", "none"}, d \in {0, 1} :
        PublishStart(p, data, params, image, d)
RaceUnpublish ==
    \E p \in Procs, data \in RaceData, params \in RaceParams, d \in {0, 1} :
        UnpublishStart(p, data, params, d)
NextRace == RacePublish \/ RaceUnpublish \/ UploadDone \/ DeleteDone \/ Tick
SpecRace == Init /\ [][NextRace]_vars

\* ---------------------------------------------------------------- calls alone
\* _flickr_api_call on its own: every call the handlers can make, with any
\* two clock readings, leaves its request in the main frame.
ApiCall(kind, arg, req) ==
    /\ inv' = [inv EXCEPT !["main"] = [Sent(IdleFrame, kind, arg, req) EXCEPT !.pc = "call"]]
    /\ UNCHANGED <<flickr_photo_limit_initial_count, published_photo_count, uploaded, now>>
CallUpload ==
    \E data \in DataSet, params \in ParamsSet, pos \in StreamPositions,
       n \in Clock, t \in Clock :
        n <= t /\ ApiCall("upload", None, UploadRequests[data, params, pos, n, t])
CallGroupAdd ==
    \E id \in FlickrIds, g \in Groups, n \in Clock, t \in Clock :
        n <= t /\ ApiCall("group_add", g, GroupAddRequests[id, g, n, t])
CallDelete ==
    \E id \in FlickrIds, n \in Clock, t \in Clock :
        n <= t /\ ApiCall("delete", id, DeleteRequests[id, n, t])
NextCall == CallUpload \/ CallGroupAdd \/ CallDelete
SpecCall == Init /\ [][NextCall]_vars

\* ---------------------------------------------------------------- parser alone
\* _parse_upload_response on its own: every document, well-formed or not,
\* with its outcome left in the main frame.
\* A function run on its own leaves its argument and its result in the main
\* frame.
Applied(name, argument, result) ==
    /\ inv["main"].pc = "idle"
    /\ inv' = [inv EXCEPT !["main"] =
                  [IdleFrame EXCEPT !.pc = name, !.argument = <<argument>>,
                                    !.result = <<result>>]]
    /\ UNCHANGED <<flickr_photo_limit_initial_count, published_photo_count, uploaded, now>>
ParseCall(xml) == Applied("parse", xml, ParseUploadResponse(xml))
ParseWellFormed == \E xml \in XmlDocuments : ParseCall(xml)
ParseMalformed == ParseCall(MalformedXml)
NextParse == ParseWellFormed \/ ParseMalformed
SpecParse == Init /\ [][NextParse]_vars

\* ---------------------------------------------------------------- signer alone
\* The parameter string of _generate_oauth_signature on its own, for every
\* mapping of up to MaxParams of these keys to these values, in any order of
\* insertion.
SignKeys == {<<"a", ".">>, <<"a", "/">>, <<"b", " ", "c">>, k_title, <<"Z">>}
SignValues == {<<"H", "i", " ", "&">>, <<"a", "=", "~">>, <<>>, IntValue(7), IntValue(10)}
Mappings ==
    UNION { { d \in [1..n -> SignKeys \X SignValues] :
                \A i, j \in 1..n : i # j => d[i][1] # d[j][1] } : n \in 0..MaxParams }
SignCall(params) == Applied("sign", params, ParamString(params))
SignSome == \E params \in Mappings : SignCall(params)
NextSign == SignSome
SpecSign == Init /\ [][NextSign]_vars

\* ---------------------------------------------------------------- reading
\* Vocabulary of the properties below.
Frames == {inv[p] : p \in Procs}
Ended(f, op) == f.pc = "done" /\ f.op = op
CallsOf(f, kind) == {i \in 1..Len(f.calls) : f.calls[i].kind = kind}
StoreUnchanged(f) == published_photo_count = f.count0 /\ uploaded = f.uploaded0
OthersUnchanged(f) ==
    \A u \in Photos : u # f.data.uuid => uploaded[u] = f.uploaded0[u]
GroupsOf(f) == GroupQueue(GetApplicableGroupSets(f.data, f.params))
Uuid(f) == f.data.uuid
Uploads(f) == Cardinality(CallsOf(f, "upload"))
\* the arguments of the group-add calls of a publish, in the order made
GroupArgs(f) == [i \in 1..(Len(f.calls) - 1) |-> f.calls[i + 1].arg]

\* ---------------------------------------------------------------- C1
\* C1 as claimed: every on_photo_publish entered with published_photo_count
\* equal to flickr_photo_limit raises the policy error and makes no network
\* call, whatever the photo and the entity parameters.
C1_Original ==
    \A f \in Frames :
        Ended(f, "publish") /\ f.count0 = flickr_photo_limit
        => f.status = "raised" /\ f.error = "policy_limit" /\ f.calls = <<>>

\* C1, amended: an on_photo_publish entered with published_photo_count equal
\* to flickr_photo_limit makes no network call, fetches no image and leaves
\* the store as it was; it raises the policy error unless the photo already
\* has a stored Flickr id and force is not set, in which case it returns
\* (the already-uploaded check comes first).
C1_AtLimit ==
    \A f \in Frames :
        Ended(f, "publish") /\ f.count0 = flickr_photo_limit
        => /\ f.calls = <<>>
           /\ f.fetches = 0
           /\ StoreUnchanged(f)
           /\ IF f.uploaded0[Uuid(f)] # None /\ ~PublishForce(f.params)
              THEN f.status = "returned"
              ELSE f.status = "raised" /\ f.error = "policy_limit"
C1_Witness ==
    \E f \in Frames :
        /\ Ended(f, "publish") /\ f.count0 = flickr_photo_limit
        /\ f.uploaded0[Uuid(f)] = None
        /\ f.status = "raised" /\ f.error = "policy_limit"

\* ---------------------------------------------------------------- C2
\* C2: an on_photo_publish without force for a photo whose Flickr id is
\* stored (an earlier publish of it succeeded) returns without a network
\* call and without fetching the image, and leaves published_photo_count
\* and the stored ids unchanged.
C2_SecondPublishIsNoOp ==
    \A f \in Frames :
        Ended(f, "publish") /\ f.uploaded0[Uuid(f)] # None /\ ~PublishForce(f.params)
        => /\ f.status = "returned"
           /\ f.calls = <<>>
           /\ f.fetches = 0
           /\ StoreUnchanged(f)
C2_Witness ==
    \E f \in Frames :
        /\ Ended(f, "publish") /\ f.uploaded0[Uuid(f)] # None /\ ~PublishForce(f.params)
        /\ f.status = "returned" /\ f.count0 > 0

\* ---------------------------------------------------------------- C3
\* C3 as claimed: a forced on_photo_publish of a photo with a stored Flickr
\* id that gets its image and its upload through makes exactly one upload,
\* leaves the count unchanged and stores the id the upload returned - in
\* every store state, the count at the limit included.
C3_Original ==
    \A f \in Frames :
        /\ Ended(f, "publish") /\ f.uploaded0[Uuid(f)] # None /\ PublishForce(f.params)
        /\ f.error \in {"none", "policy_limit"}
        => /\ Uploads(f) = 1
           /\ published_photo_count = f.count0
           /\ uploaded[Uuid(f)] = f.calls[1].photo_id

\* C3, amended: a forced on_photo_publish of a photo with a stored Flickr id
\* raises the policy error, with no network call and the store unchanged,
\* when published_photo_count has reached the limit; below the limit it
\* makes at most one upload and never changes the count or another photo's
\* id, and when it returns it has made exactly one upload and stored the id
\* that upload returned.
C3_ForcedReupload ==
    \A f \in Frames :
        Ended(f, "publish") /\ f.uploaded0[Uuid(f)] # None /\ PublishForce(f.params)
        => IF f.count0 >= flickr_photo_limit
           THEN /\ f.status = "raised" /\ f.error = "policy_limit"
                /\ f.calls = <<>>
                /\ StoreUnchanged(f)
           ELSE /\ Uploads(f) <= 1
                /\ published_photo_count = f.count0
                /\ OthersUnchanged(f)
                /\ f.status = "raised" => StoreUnchanged(f)
                /\ f.status = "returned"
                   => /\ Uploads(f) = 1
                      /\ f.calls[1].photo_id \in FlickrIds
                      /\ uploaded[Uuid(f)] = f.calls[1].photo_id
C3_Witness ==
    \E f \in Frames :
        /\ Ended(f, "publish") /\ f.uploaded0[Uuid(f)] # None /\ PublishForce(f.params)
        /\ f.status = "returned"
        /\ uploaded[Uuid(f)] # f.uploaded0[Uuid(f)]
        /\ published_photo_count = f.count0

\* ---------------------------------------------------------------- C4
\* C4: an on_photo_unpublish with force false for a photo without a stored
\* Flickr id returns without a network call and leaves every key of the
\* store unchanged.
C4_UnpublishUnknownIsNoOp ==
    \A f \in Frames :
        /\ Ended(f, "unpublish") /\ ~f.params.none /\ ~f.params.force
        /\ f.uploaded0[Uuid(f)] = None
        => /\ f.status = "returned"
           /\ f.calls = <<>>
           /\ StoreUnchanged(f)
C4_Witness ==
    \E f \in Frames :
        /\ Ended(f, "unpublish") /\ ~f.params.none /\ ~f.params.force
        /\ f.uploaded0[Uuid(f)] = None
        /\ f.status = "returned"
        /\ \E u \in Photos : uploaded[u] # None

\* ---------------------------------------------------------------- C5
\* C5: once the upload of an on_photo_publish has succeeded, failing
\* group-add calls do not abort it: every group of every applicable group
\* set is attempted, in order, the handler returns, and the count and the
\* Flickr id written after the upload stay.
C5_GroupFailuresTolerated ==
    \A f \in Frames :
        Ended(f, "publish") /\ f.calls # <<>> /\ f.calls[1].status = "ok"
                            /\ f.calls[1].photo_id # None
        => /\ f.status = "returned"
           /\ GroupArgs(f) = GroupsOf(f)
           /\ \A i \in 2..Len(f.calls) : f.calls[i].kind = "group_add"
           /\ published_photo_count =
                 IF f.uploaded0[Uuid(f)] = None THEN f.count0 + 1 ELSE f.count0
           /\ uploaded[Uuid(f)] = f.calls[1].photo_id
C5_Witness ==
    \E f \in Frames :
        /\ Ended(f, "publish") /\ f.status = "returned"
        /\ Len(f.calls) = 4
        /\ f.calls[2].status = "failed" /\ f.calls[3].status = "failed"
        /\ f.calls[4].status = "ok"
        /\ published_photo_count = f.count0 + 1

\* ---------------------------------------------------------------- C6
\* C6: every on_photo_publish that got an image stream from the host has
\* closed it when it returns or raises, whatever the exit; the stream is
\* still open while the upload is in flight, and the photo part of the
\* upload body holds the image from its first byte.
C6_StreamClosedAndReadFromStart ==
    \A f \in Frames :
        /\ Ended(f, "publish") /\ f.photo_stream.present
           => f.photo_stream.closed /\ Uploads(f) = 1
        /\ f.pc = "upload"
           => /\ f.photo_stream.present /\ ~f.photo_stream.closed
              /\ f.request[1].body.multipart
              /\ f.request[1].body.photo = ImageBytes
C6_Witness ==
    \E f \in Frames :
        /\ Ended(f, "publish") /\ f.status = "raised" /\ f.error = "timeout"
        /\ f.photo_stream.present /\ f.photo_stream.pos > 0
        /\ f.photo_stream.closed

\* ---------------------------------------------------------------- C7
\* C7: when the provider refuses the upload of an on_photo_publish or the
\* delete of an on_photo_unpublish (HTTP error, connection error, timeout,
\* or a response that signals failure), the handler raises and the store is
\* as it was before the invocation.
C7_RefusedCallLeavesStore ==
    \A f \in Frames :
        /\ f.pc = "done"
        /\ \E i \in CallsOf(f, "upload") \cup CallsOf(f, "delete") : f.calls[i].refused
        => /\ f.status = "raised"
           /\ f.error # "none"
           /\ StoreUnchanged(f)
C7_Witness ==
    \E f \in Frames :
        /\ Ended(f, "unpublish") /\ f.status = "raised" /\ f.error = "provider"
        /\ f.calls[1].refused
        /\ uploaded[Uuid(f)] # None

\* ---------------------------------------------------------------- C8
\* C8: at any moment an invocation has made at most one upload (publish
\* only) or at most one delete (unpublish only); a group-add call comes only
\* after the upload of the same invocation succeeded; every call but the
\* latest has got its answer; and there are never more group-add calls than
\* groups in the applicable group sets.
C8_CallDiscipline ==
    \A f \in Frames :
        /\ Uploads(f) <= 1
        /\ Cardinality(CallsOf(f, "delete")) <= 1
        /\ f.op = "publish" => CallsOf(f, "delete") = {}
        /\ f.op = "unpublish" => CallsOf(f, "delete") = 1..Len(f.calls)
        /\ \A i \in CallsOf(f, "group_add") :
              /\ i > 1
              /\ f.calls[1].kind = "upload" /\ f.calls[1].status = "ok"
              /\ ~f.calls[1].refused /\ f.calls[1].photo_id \in FlickrIds
        /\ \A i \in 1..(Len(f.calls) - 1) : f.calls[i].status # "pending"
        /\ Cardinality(CallsOf(f, "group_add")) <= Len(GroupsOf(f))
C8_Witness ==
    \E f \in Frames :
        /\ f.pc = "group" /\ Len(f.calls) = 3
        /\ f.calls[2].status = "failed"
        /\ f.calls[3].status = "pending"

\* ---------------------------------------------------------------- C9
\* C9 as claimed: the calls of one invocation (all within the signature
\* window) carry pairwise different nonces, also when the clock reading did
\* not change between two of them.
C9_NoncesDistinct ==
    \A f \in Frames :
        \A i, j \in 1..Len(f.calls) : i # j => f.calls[i].nonce # f.calls[j].nonce

\* ---------------------------------------------------------------- C10
\* How the receiver reads a form-encoded field: "+" is a space and %XX the
\* character with that code.
Escaped == {" ", "&", "=", "%", "+", "/", ":", "@", "\n", "?"}
Unescape(a, b) == CHOOSE c \in Escaped : PercentCode(c) = <<"%", a, b>>
RECURSIVE unquote_plus(_)
unquote_plus(s) ==
    IF s = <<>> THEN <<>>
    ELSE IF s[1] = "%" /\ Len(s) >= 3
         THEN <<Unescape(s[2], s[3])>> \o unquote_plus(SubSeq(s, 4, Len(s)))
    ELSE IF s[1] = "+" THEN <<" ">> \o unquote_plus(Tail(s))
    ELSE <<s[1]>> \o unquote_plus(Tail(s))
\* The text fields of a sent body, as the receiver reads them.
BodyFields(body) ==
    IF body.multipart THEN body.fields
    ELSE [i \in 1..Len(body.fields) |->
            <<unquote_plus(body.fields[i][1]), unquote_plus(body.fields[i][2])>>]
OauthKeys == {k_oauth_nonce, k_oauth_timestamp, k_oauth_consumer_key, k_oauth_token,
              k_oauth_signature_method, k_oauth_version}

\* C10: the text fields of every request _flickr_api_call sends, form-encoded
\* or multipart, are the signed parameters (the request parameters merged
\* with the six OAuth parameters) with the values that were signed, plus
\* oauth_signature holding the signature of exactly those parameters; no
\* field comes twice.
C10_BodyIsWhatWasSigned ==
    \A f \in Frames :
        f.request # <<>>
        => LET r == f.request[1]
               fields == BodyFields(r.body)
           IN  /\ OauthKeys \subseteq Keys(r.signed)
               /\ k_oauth_signature \notin Keys(r.signed)
               /\ Len(fields) = Cardinality(Keys(fields))
               /\ Range(fields) =
                     Range(r.signed) \cup
                     {<<k_oauth_signature,
                        GenerateOauthSignature(<<"p", "o", "s", "t">>, r.url, r.signed)>>}
               /\ r.body.multipart = r.upload
C10_Witness ==
    \E f \in Frames :
        /\ f.request # <<>>
        /\ ~f.request[1].body.multipart
        /\ \E i \in 1..Len(f.request[1].body.fields) :
              /\ f.request[1].body.fields[i][1] = k_group_id
              /\ f.request[1].body.fields[i][2] # g3
              /\ unquote_plus(f.request[1].body.fields[i][2]) = g3

\* ---------------------------------------------------------------- C11
\* C11: _parse_upload_response puts every well-formed upload document in
\* exactly one of three classes. A root with stat "fail" raises the provider
\* error, which carries the code and the message of the err element (and the
\* texts "unknown" and "Unknown error" for what the document does not give),
\* and yields no photo id even when a photoid element is there. Any other
\* root with a photoid element returns that element's text (none for an
\* empty element). Any other root without one raises the missing-photo-id
\* error.
C11_ThreeOutcomes ==
    \A f \in Frames :
        f.pc = "parse" /\ f.argument[1].wellformed
        => LET xml == f.argument[1]
               r == f.result[1]
           IN  /\ r.error \in {"provider", "none", "missing_photo_id"}
               /\ xml.stat = "fail"
                  => /\ r.error = "provider" /\ r.photo_id = None
                     /\ r.detail.code = IF xml.code # None THEN xml.code ELSE unknown
                     /\ r.detail.msg = IF xml.msg # None THEN xml.msg ELSE Unknown_error
               /\ xml.stat # "fail" /\ xml.photoid # "absent"
                  => /\ r.error = "none"
                     /\ r.photo_id = xml.id
                     /\ r.detail = NoDetail
               /\ xml.stat # "fail" /\ xml.photoid = "absent"
                  => /\ r.error = "missing_photo_id" /\ r.photo_id = None
                     /\ r.detail = NoDetail
C11_Witness ==
    \E f \in Frames :
        /\ f.pc = "parse" /\ f.argument[1].wellformed
        /\ f.argument[1].stat = "fail" /\ f.argument[1].photoid = "text"
        /\ f.result[1].error = "provider"
        /\ f.result[1].detail = [code |-> <<"9", "6">>, msg |-> <<"b", "a", "d">>]
        /\ f.result[1].photo_id = None

\* ---------------------------------------------------------------- C12
\* The pairs of a mapping in the order of their keys (code points).
ByKey(d) ==
    CHOOSE s \in [1..Len(d) -> Range(d)] :
        /\ Range(s) = Range(d)
        /\ \A i \in 1..(Len(d) - 1) : StrLess(s[i][1], s[i + 1][1])
\* text with everything but letters, digits and -._~ percent-encoded
Rfc3986(s) == [i \in 1..Len(s) |-> IF s[i] \in Unreserved THEN <<s[i]>> ELSE PercentCode(s[i])]
RECURSIVE Flat(_)
Flat(ss) == IF ss = <<>> THEN <<>> ELSE Head(ss) \o Flat(Tail(ss))
\* the digits of an integer value, or the text itself
AsText(v) == IF v \in {IntValue(7)} THEN <<"7">> ELSE IF v \in {IntValue(10)} THEN <<"1", "0">> ELSE v
\* what the claim says the parameter string of a mapping is
ClaimedParamString(d) ==
    LET s == ByKey(d)
        pair(i) == Flat(Rfc3986(s[i][1])) \o <<"=">> \o Flat(Rfc3986(AsText(s[i][2])))
    IN  IF d = <<>> THEN <<>>
        ELSE Flat([i \in 1..Len(d) |-> IF i = 1 THEN pair(i) ELSE <<"&">> \o pair(i)])

\* C12 as claimed: for every parameter mapping, the parameter string of
\* _generate_oauth_signature is the "&"-join of the pairs in the order of
\* their keys, each pair being the percent-encoded key, "=", and the
\* percent-encoded value, a value that is not a string being turned into
\* one first.
C12_ParamStringEncodesKeysAndValues ==
    \A f \in Frames :
        f.pc = "sign" => f.result[1] = ClaimedParamString(f.argument[1])

\* ---------------------------------------------------------------- C13
\* The step in which the upload of thread p's publish is answered and the
\* photo id stored.
UploadStored(p) ==
    /\ inv[p].pc = "upload" /\ inv'[p].pc # "upload"
    /\ inv'[p].status = "returned"

\* C13: the count on_photo_publish writes after the upload of a new photo is
\* the count it read before the upload plus one, whatever the store holds
\* at the time of the write (a read-then-write that is not atomic), and the
\* limit it passed was checked on that read.
C13_CountWrittenFromStaleRead ==
    [][\A p \in Procs :
          UploadStored(p) /\ inv[p].existing_flickr_id = None
          => /\ published_photo_count' = inv[p].published_count + 1
             /\ inv[p].published_count < flickr_photo_limit]_vars
\* Two interleaved publishes of two different photos that had no stored id
\* both read the same count, one below the limit, both pass the limit check
\* and both upload: two more ids are stored, and the count went up by one.
C13_Witness ==
    LET f == inv["main"]
        g == inv["worker"]
    IN  /\ Ended(f, "publish") /\ Ended(g, "publish")
        /\ f.status = "returned" /\ g.status = "returned"
        /\ Uuid(f) # Uuid(g)
        /\ f.existing_flickr_id = None /\ g.existing_flickr_id = None
        /\ f.published_count = flickr_photo_limit - 1
        /\ g.published_count = f.published_count
        /\ uploaded[Uuid(f)] # None /\ uploaded[Uuid(g)] # None
        /\ published_photo_count = f.published_count + 1

\* ---------------------------------------------------------------- C14
\* C14: with one handler at a time and a configured initial count between 0
\* and flickr_photo_limit, the stored published_photo_count is between 0 and
\* flickr_photo_limit at every moment, whatever publishes and unpublishes,
\* forced or not, succeeding or failing, came before.
C14_CountWithinLimit ==
    /\ flickr_photo_limit_initial_count \in 0..flickr_photo_limit
    /\ published_photo_count >= 0
    /\ published_photo_count <= flickr_photo_limit
\* A publish of a new photo has just taken the count from below the limit
\* to the limit, in a store that started with a count of 0.
C14_Witness ==
    \E f \in Frames :
        /\ Ended(f, "publish") /\ f.status = "returned"
        /\ f.existing_flickr_id = None
        /\ f.count0 = flickr_photo_limit - 1
        /\ published_photo_count = flickr_photo_limit
        /\ flickr_photo_limit_initial_count = 0

\* ---------------------------------------------------------------- C15
\* the number of photos with a stored Flickr id
StoredIds(store) == Cardinality({u \in Photos : store[u] # None})

\* C15: with one handler at a time, a store that started without upload
\* keys and a non-negative initial count, published_photo_count is at every
\* moment the initial count plus the number of photos that have a stored
\* Flickr id. A publish of a new photo that returns has added one to the
\* count and stored the id of this photo only; an unpublish that deleted
\* has taken one from the count and removed the id of this photo only, so
\* that the two in a row give the store its contents back.
C15_CountIsInitialPlusStored ==
    /\ flickr_photo_limit_initial_count >= 0
    /\ published_photo_count = flickr_photo_limit_initial_count + StoredIds(uploaded)
    /\ \A f \in Frames :
          /\ Ended(f, "publish") /\ f.status = "returned" /\ f.uploaded0[Uuid(f)] = None
             => /\ published_photo_count = f.count0 + 1
                /\ uploaded[Uuid(f)] # None
                /\ OthersUnchanged(f)
          /\ Ended(f, "unpublish") /\ f.status = "returned" /\ f.calls # <<>>
             => /\ published_photo_count = f.count0 - 1
                /\ uploaded = [f.uploaded0 EXCEPT ![Uuid(f)] = None]
\* An unpublish has just deleted the one stored photo, in a store that
\* started with a count above 0: the count is the initial count again.
C15_Witness ==
    \E f \in Frames :
        /\ Ended(f, "unpublish") /\ f.status = "returned" /\ f.calls # <<>>
        /\ StoredIds(f.uploaded0) = 1 /\ StoredIds(uploaded) = 0
        /\ flickr_photo_limit_initial_count > 0
        /\ f.count0 = flickr_photo_limit_initial_count + 1
        /\ published_photo_count = flickr_photo_limit_initial_count
=============================================================================
